---- MODULE Spec2Model ----
(***************************************************************************)
(* A model of taf.Agent (src/taf/agent.py): the tool registry, the hook    *)
(* slot map, the conversation log and the streamed agent loop run_stream.  *)
(*                                                                         *)
(* Text is a sequence of tokens (each token a short string); concatenation *)
(* is \o.  A Python value is a record [t, s, n]: t names the type, s holds *)
(* the text of a str, n the value of an int.                               *)
(***************************************************************************)
EXTENDS Integers, Sequences, FiniteSets, TLC

(***************************************************************************)
(* Bounds of the model.                                                    *)
(***************************************************************************)
MaxOps      == 2   \* run_stream, clear_history and load_conv calls in one behaviour
MaxSteps    == 2   \* largest max_steps a caller passes
MaxRequests == 2   \* completion requests the transport answers with more than
                   \* the empty stream in one behaviour
MaxNext     == 3   \* AgentChain.next calls in one behaviour
MaxParams   == 2   \* parameters of a callable given to schema inference
MaxHooks    == 3   \* hook and system_prompt registrations in one behaviour
MaxAnswers  == 2   \* completions a chained agent's transport answers with a
                   \* tool call in one behaviour

(***************************************************************************)
(* Python values.                                                          *)
(***************************************************************************)
None      == [t |-> "none", s |-> <<>>, n |-> 0]
PyStr(x)  == [t |-> "str",  s |-> x,    n |-> 0]
PyInt(k)  == [t |-> "int",  s |-> <<>>, n |-> k]
\* the dict {"agent_response": x} of a text x without quotes or escapes
PyDict(x) == [t |-> "dict", s |-> x,    n |-> 0]

\* bool(v): None, "" and 0 are falsy
Truthy(v) ==
    CASE v.t = "none" -> FALSE
      [] v.t = "str"  -> v.s # <<>>
      [] OTHER        -> v.n # 0

Digits == <<"0", "1", "2", "3", "4", "5", "6", "7", "8", "9">>

RECURSIVE NatToStr(_)
NatToStr(k) ==
    IF k < 10 THEN <<Digits[k + 1]>>
    ELSE NatToStr(k \div 10) \o <<Digits[(k % 10) + 1]>>

\* str(v) of the builtin types a tool can return
Str(v) ==
    CASE v.t = "none" -> <<"None">>
      [] v.t = "str"  -> v.s
      [] v.t = "dict" -> <<"{'agent_response': '">> \o v.s \o <<"'}">>
      [] OTHER        -> IF v.n < 0 THEN <<"-">> \o NatToStr(-v.n)
                                    ELSE NatToStr(v.n)

\* str.strip(): leading and trailing whitespace removed
Whitespace == {" ", "\n", "\t"}

RECURSIVE LStrip(_)
LStrip(x) ==
    IF x # <<>> /\ Head(x) \in Whitespace THEN LStrip(Tail(x)) ELSE x

RECURSIVE RStrip(_)
RStrip(x) ==
    IF x # <<>> /\ x[Len(x)] \in Whitespace
    THEN RStrip(SubSeq(x, 1, Len(x) - 1)) ELSE x

Strip(x) == RStrip(LStrip(x))

(***************************************************************************)
(* constants.py                                                            *)
(***************************************************************************)
SYSTEM    == "system"
ASSISTANT == "assistant"
USER      == "user"
TOOL      == "tool"
SYSTEM_PROMPT == "SYSTEM_PROMPT"
ON_AGENT_STEP == "ON_AGENT_STEP"

(***************************************************************************)
(* json.loads on the argument text of a tool call.  The grammar covers     *)
(* what the modelled LLM streams: a flat object of one-digit numbers, a    *)
(* list, a bare number; any other text is a JSONDecodeError and a value    *)
(* that is not a str a TypeError.                                          *)
(***************************************************************************)
JsonKeys == {"a", "b", "x", "question"}
Quote(k) == "\"" \o k \o "\""
IsKeyTok(tok) == \E k \in JsonKeys : tok = Quote(k)
KeyOf(tok)    == CHOOSE k \in JsonKeys : tok = Quote(k)
IsNumTok(tok) == \E i \in 1..10 : Digits[i] = tok
NumVal(tok)   == (CHOOSE i \in 1..10 : Digits[i] = tok) - 1

EmptyDict == [k \in {} |-> 0]
JsonFail  == [err |-> "JSONDecodeError", kind |-> "", d |-> EmptyDict]

RECURSIVE ParseMembers(_)
ParseMembers(x) ==
    IF Len(x) < 3 THEN JsonFail
    ELSE IF ~IsKeyTok(x[1]) \/ x[2] # ":" \/ ~IsNumTok(x[3]) THEN JsonFail
    ELSE IF Len(x) = 3
         THEN [err |-> "", kind |-> "dict",
               d |-> [k \in {KeyOf(x[1])} |-> NumVal(x[3])]]
    ELSE IF x[4] # "," THEN JsonFail
    ELSE LET rest == ParseMembers(SubSeq(x, 5, Len(x)))
         IN  IF rest.err # "" THEN JsonFail
             ELSE [err |-> "", kind |-> "dict",
                   d |-> [k \in DOMAIN rest.d \cup {KeyOf(x[1])} |->
                            IF k \in DOMAIN rest.d THEN rest.d[k]
                            ELSE NumVal(x[3])]]

JsonLoads(v) ==
    IF v.t # "str" THEN [err |-> "TypeError", kind |-> "", d |-> EmptyDict]
    ELSE LET x == v.s
         IN  IF x = <<>> THEN JsonFail
             ELSE IF Len(x) = 1 /\ IsNumTok(x[1])
                  THEN [err |-> "", kind |-> "int", d |-> EmptyDict]
             ELSE IF x[1] = "[" /\ x[Len(x)] = "]" /\ Len(x) <= 3
                     /\ \A i \in 2..(Len(x) - 1) : IsNumTok(x[i])
                  THEN [err |-> "", kind |-> "list", d |-> EmptyDict]
             ELSE IF x[1] = "{" /\ x[Len(x)] = "}" /\ Len(x) >= 2
                  THEN IF Len(x) = 2
                       THEN [err |-> "", kind |-> "dict", d |-> EmptyDict]
                       ELSE ParseMembers(SubSeq(x, 2, Len(x) - 1))
             ELSE JsonFail

(***************************************************************************)
(* The callables a caller registers as tools.                              *)
(*   add(a, b)  returns a + b                                              *)
(*   boom(ctx)  raises ValueError("bad")                                   *)
(*   add2       a second callable whose __name__ is "add": add(a, b)       *)
(*              returns a * b                                              *)
(***************************************************************************)
Funcs == {"add", "boom", "add2"}

\* function.__name__
FuncName(f) == IF f = "add2" THEN <<"add">> ELSE <<f>>

\* inspect.signature(f).parameters
FuncParams(f) == IF f \in {"add", "add2"} THEN {"a", "b"} ELSE {"ctx"}

Returned(v)    == [raised |-> FALSE, exc |-> "", msg |-> <<>>, value |-> v]
Raised(e, m)   == [raised |-> TRUE, exc |-> e, msg |-> m, value |-> None]

FuncBody(f, kwargs) ==
    IF f = "add" THEN Returned(PyInt(kwargs["a"] + kwargs["b"]))
    ELSE IF f = "add2" THEN Returned(PyInt(kwargs["a"] * kwargs["b"]))
    ELSE Raised("ValueError", <<"bad">>)

\* Whether func(**params[, ctx=dependency]) binds its arguments, and the
\* TypeError it raises before the body is entered when it does not.
BindError(f, params, has_context) ==
    IF params.kind # "dict"
    THEN FuncName(f) \o <<"() argument after ** must be a mapping, not ",
                           params.kind>>
    ELSE IF has_context /\ "ctx" \in DOMAIN params.d
    THEN <<"got multiple values for keyword argument 'ctx'">>
    ELSE IF DOMAIN params.d \cup (IF has_context THEN {"ctx"} ELSE {})
            # FuncParams(f)
    THEN <<"missing or unexpected keyword argument">>
    ELSE <<>>

\* func(**params, ctx=dependency) if has_context else func(**params)
CallFunc(f, params, has_context) ==
    IF BindError(f, params, has_context) # <<>>
    THEN Raised("TypeError", BindError(f, params, has_context))
    ELSE FuncBody(f, params.d)

(***************************************************************************)
(* tools.py                                                                *)
(***************************************************************************)
\* ToolUtils.has_ctx_parameter
HasCtxParameter(f) == "ctx" \in FuncParams(f)

\* The parameters function_to_openai_schema declares besides cls.
SchemaParams == {"function"}

\* ToolUtils.function_to_openai_schema called with the keyword arguments
\* kw besides the positional function: an undeclared keyword is a TypeError.
FunctionToOpenaiSchema(f, kw) ==
    IF ~({"function"} \cup kw \subseteq SchemaParams)
    THEN Raised("TypeError", <<"got an unexpected keyword argument">>)
    ELSE Returned([type |-> "function",
                   function |-> [name |-> FuncName(f),
                                 required |-> FuncParams(f) \ {"ctx"}]])

(***************************************************************************)
(* hooks.py and the hook callables a caller registers.                     *)
(*   sys_hook(ctx)  returns "H" when given a context object, "" otherwise  *)
(*   plain_hook()   returns "P"                                            *)
(***************************************************************************)
HookFuncs == {"sys_hook"}
Handlers  == HookFuncs \cup {"plain_hook"}
HookParams(h) == IF h = "plain_hook" THEN {} ELSE {"ctx"}
HookBody(h, params) ==
    IF h = "plain_hook" THEN PyStr(<<"P">>)
    ELSE IF "ctx" \in DOMAIN params /\ Truthy(params["ctx"])
    THEN PyStr(<<"H">>) ELSE PyStr(<<>>)

\* HookFunctions.call: the parameters the handler declares are passed on
HookFunctionsCall(h, params) ==
    HookBody(h, [k \in DOMAIN params \cap HookParams(h) |-> params[k]])

(***************************************************************************)
(* What the caller and the LLM transport can supply.                       *)
(***************************************************************************)
BasePrompts == {<<"S">>, <<>>}
Prompts     == {<<"hi">>}
Deps        == {None, PyStr(<<"d">>)}
AgentName   == <<"agent">>

Fragment(index, id, name, arguments) ==
    [index |-> index, id |-> id,
     function |-> [name |-> name, arguments |-> arguments],
     type |-> "function"]

ArgsFull == <<"{", Quote("a"), ":", "2", ",", Quote("b"), ":", "3", "}">>
ArgsHead == <<"{", Quote("a"), ":", "2", ",">>
ArgsTail == <<Quote("b"), ":", "3", "}">>

FragAdd     == Fragment(0, PyStr(<<"a">>), PyStr(<<"add">>), PyStr(ArgsFull))
FragAddHead == Fragment(0, PyStr(<<"a">>), PyStr(<<"add">>), PyStr(ArgsHead))
FragAddTail == Fragment(0, None, None, PyStr(ArgsTail))
FragSub     == Fragment(0, PyStr(<<"s">>), PyStr(<<"sub">>), PyStr(<<"{", "}">>))
FragBoom    == Fragment(1, PyStr(<<"b">>), PyStr(<<"boom">>), PyStr(<<"{", "}">>))
FragList    == Fragment(0, PyStr(<<"l">>), PyStr(<<"add">>), PyStr(<<"[", "1", "]">>))

Fragments == {FragAdd, FragAddHead, FragAddTail, FragSub, FragBoom, FragList}

\* A ChatCompletionChunk: its number of choices and choices[0].delta
Chunk(n, content, reasoning, tool_calls) ==
    [choices |-> n,
     delta |-> [content |-> content, reasoning |-> reasoning,
                tool_calls |-> tool_calls]]

NoChoices      == Chunk(0, None, None, <<>>)
ContentChunk   == Chunk(1, PyStr(<<"Hi">>), None, <<>>)
ReasoningChunk == Chunk(1, PyStr(<<>>), PyStr(<<"R">>), <<>>)
ToolChunk(fr)  == Chunk(1, None, None, <<fr>>)

\* The streams the LLM transport answers a completion request with
Streams ==
    {<<>>,
     <<NoChoices, ContentChunk>>,
     <<ReasoningChunk, ContentChunk, ContentChunk>>,
     <<ToolChunk(FragAdd)>>,
     <<ToolChunk(FragAddHead), ToolChunk(FragAddTail)>>,
     <<ContentChunk, ToolChunk(FragSub), ToolChunk(FragBoom)>>,
     <<ToolChunk(FragList)>>}

\* Message sequences a caller hands to load_conv
LoadConvs ==
    {<<>>,
     <<[role |-> USER, content |-> PyStr(<<"old">>)],
       [role |-> ASSISTANT, content |-> PyStr(<<"ok">>)]>>,
     <<[role |-> SYSTEM, content |-> PyStr(<<"S">>)],
       [role |-> TOOL, tool_call_id |-> PyStr(<<"a">>),
        name |-> PyStr(<<"add">>), content |-> PyStr(<<"5">>)]>>}

(***************************************************************************)
(* The agent (taf/agent.py)                                                *)
(***************************************************************************)
VARIABLES
    tool_mapping,           \* Agent.__tool_mapping: name -> {func, hasContext}
    tool_schemas,           \* Agent.__tool_schemas
    hooks,                  \* Agent.hooks: hook type -> handler
    llm_system_prompt,      \* Agent.__llm_system_prompt
    conversation_history,   \* Agent.__conversation_history
    pc,                     \* where run_stream stands: idle, loop, stream, tools
    dependency,             \* run_stream's dependency argument
    max_steps,              \* run_stream's max_steps argument
    step,                   \* iterations of the for loop begun
    response_message,       \* the step's response buffer
    tool_calls_aggregator,  \* the step's collected tool-call fragments
    tool_i,                 \* position of __handle_tool_calls in the aggregator
    run_from,               \* length of the conversation when the latest run
                            \* began (what follows, the loop appended)
    requests,               \* completion requests of the latest run
    answers,                \* the streams the transport answered them with
    events,                 \* AgentChunkResponses the latest run yielded
    invoked,                \* tool callables entered during the latest run
    call,                   \* the latest public call on the agent
    ret,                    \* what the latest public call returned
    exc,                    \* the exception the latest public call raised
    nOps,                   \* run_stream, clear_history and load_conv calls made
    nRequests,              \* completion requests made
    stream,                 \* the chunks the transport has yet to deliver
    agents,                 \* AgentChain.agents of each chain: (agent, task)
    ask_previous,           \* per agent: the previous_agent its registry entry
                            \* ask_previous_agent is bound to, or "none"
    history,                \* per chained agent: its conversation
    frames,                 \* the call stack under result(), innermost last
    chain_ret,              \* what the latest result() returned
    chain_exc,              \* what the latest AgentChain call raised
    chain_call,             \* the latest AgentChain call: next or result
    runs,                   \* run_stream calls made on chained agents
    nNext,                  \* AgentChain.next calls made
    nAnswers,               \* completions answered with a tool call
    signature,              \* the parameters of the callable given to
                            \* function_to_openai_schema
    union_is_typing_union,  \* whether typing.get_origin(X | None) is
                            \* typing.Union on this interpreter
    tool_schema,            \* what function_to_openai_schema returned
    legacy_schema,          \* what the legacy __extract_tool_schema returned
    hook_log,               \* the hook registrations made, in order
    hook_call,              \* the latest __call_hook: its event and params
    hook_ret                \* what that __call_hook returned

agentVars == <<tool_mapping, tool_schemas, hooks, llm_system_prompt,
               conversation_history>>
frameVars == <<dependency, max_steps, step, response_message,
               tool_calls_aggregator, tool_i>>
obsVars   == <<run_from, requests, answers, events, invoked>>
callVars  == <<call, ret, exc, nOps>>
chainVars  == <<agents, ask_previous, history, frames, chain_ret, chain_exc,
                chain_call, runs, nNext, nAnswers>>
schemaVars == <<signature, union_is_typing_union, tool_schema,
                legacy_schema>>
loopVars   == <<agentVars, pc, frameVars, obsVars, callVars, nRequests,
                stream>>
hookVars   == <<hook_log, hook_call, hook_ret>>
vars       == <<loopVars, chainVars, schemaVars, hookVars>>

\* A public call: its name, its flags (export_conv), its message sequence
\* (load_conv; for clear_history the conversation it found) and its
\* max_steps (run_stream)
Call(op, a1, a2, conv, n) ==
    [op |-> op, a1 |-> a1, a2 |-> a2, conv |-> conv, n |-> n]
RetNone    == [t |-> "none", v |-> <<>>]
RetList(x) == [t |-> "list", v |-> x]

SystemMessage == [role |-> SYSTEM, content |-> PyStr(llm_system_prompt)]

\* Agent.__init__ with no tools and no skills
AgentInit ==
    /\ llm_system_prompt \in BasePrompts
    /\ tool_mapping = [k \in {} |-> 0]
    /\ tool_schemas = <<>>
    /\ hooks = [k \in {} |-> 0]
    /\ conversation_history = <<SystemMessage>>
    /\ pc = "idle"
    /\ dependency = None
    /\ max_steps = 0
    /\ step = 0
    /\ response_message = <<>>
    /\ tool_calls_aggregator = <<>>
    /\ tool_i = 0
    /\ run_from = 1
    /\ requests = <<>>
    /\ answers = <<>>
    /\ events = <<>>
    /\ invoked = <<>>
    /\ call = Call("__init__", FALSE, FALSE, <<>>, 0)
    /\ ret = RetNone
    /\ exc = ""
    /\ nOps = 0
    /\ nRequests = 0
    /\ stream = <<>>

\* The chained agents A and B: Agent(name, model, system_prompt="S")
Agents == {"A", "B"}
Chains == {1, 2}

\* AgentChain.__init__ of each chain, Agent.__init__ of each chained agent
ChainInit ==
    /\ agents = [c \in Chains |-> <<>>]
    /\ ask_previous = [a \in Agents |-> "none"]
    /\ history = [a \in Agents |->
                    <<[role |-> SYSTEM, content |-> PyStr(<<"S">>)]>>]
    /\ frames = <<>>
    /\ chain_ret = None
    /\ chain_exc = ""
    /\ chain_call = [op |-> "__init__", chain |-> 0, agent |-> "none"]
    /\ runs = <<>>
    /\ nNext = 0
    /\ nAnswers = 0

\* No callable has been given to function_to_openai_schema.
SchemaIdle ==
    /\ signature = <<>>
    /\ union_is_typing_union = FALSE
    /\ tool_schema = None
    /\ legacy_schema = None

\* No hook has been registered through the registry under observation.
HookIdle ==
    /\ hook_log = <<>>
    /\ hook_call = [event |-> "", params |-> [k \in {} |-> None]]
    /\ hook_ret = None

Init == AgentInit /\ ChainInit /\ SchemaIdle /\ HookIdle

\* A call is made on an agent that has no run in progress.
CanCall == pc = "idle" /\ nOps < MaxOps

\* Tools and hooks are registered before the agent is first used.
CanRegister == pc = "idle" /\ nOps = 0

\* The observations of a finished run are dropped at the next call that
\* changes the agent.
ForgetRun ==
    /\ run_from' = Len(conversation_history')
    /\ requests' = <<>>
    /\ answers' = <<>>
    /\ events' = <<>>
    /\ invoked' = <<>>

Called(c) ==
    /\ call' = c
    /\ nOps' = nOps + 1

Registered(c) ==
    /\ call' = c
    /\ nOps' = nOps

Put(m, k, v) == [x \in DOMAIN m \cup {k} |-> IF x = k THEN v ELSE m[x]]

\* __append_message that skips a turn whose content is empty
AppendMessageSkipEmpty(conv, role, content, tool_calls) ==
    IF tool_calls = <<>> /\ ~Truthy(content) THEN conv
    ELSE Append(conv, [role |-> role, content |-> content])

\* __append_message that stores the content next to the tool calls
AppendMessageKeepContent(conv, role, content, tool_calls) ==
    IF tool_calls # <<>>
    THEN Append(conv, [role |-> role, content |-> content,
                       tool_calls |-> tool_calls])
    ELSE Append(conv, [role |-> role, content |-> content])

\* Agent.__append_message
AppendMessage(conv, role, content, tool_calls) ==
    IF tool_calls # <<>>
    THEN Append(conv, [role |-> role, content |-> None,
                       tool_calls |-> [i \in 1..Len(tool_calls) |->
                                         [index |-> tool_calls[i].index,
                                          id |-> tool_calls[i].id,
                                          function |-> tool_calls[i].function,
                                          type |-> tool_calls[i].type]]])
    ELSE Append(conv, [role |-> role, content |-> content])

\* a __call_hook that calls whatever handler the registry holds
CallHookAnyEvent(hook_type, params) ==
    IF DOMAIN hooks = {} THEN None
    ELSE HookFunctionsCall(hooks[CHOOSE t \in DOMAIN hooks : TRUE], params)

\* Agent.__call_hook
CallHook(hook_type, params) ==
    IF hook_type \notin DOMAIN hooks THEN None
    ELSE HookFunctionsCall(hooks[hook_type], params)

\* Agent.__format_system_prompt
FormatSystemPrompt(dep, base_prompt) ==
    LET output == CallHook(SYSTEM_PROMPT, [k \in {"ctx"} |-> dep])
    IN  IF ~Truthy(output) THEN base_prompt
        ELSE base_prompt \o <<"\n">> \o output.s

\* __execute_func with "except Exception" left out: what the callable raises
\* leaves the method
ExecuteFuncNoCatch(tool_name, tool_parameters_str, dep) ==
    LET found  == tool_name.t = "str" /\ tool_name.s \in DOMAIN tool_mapping
        data   == tool_mapping[tool_name.s]
        params == JsonLoads(tool_parameters_str)
        r      == CallFunc(data.func, params, data.hasContext)
        out(x, f) == [raised |-> FALSE, exc |-> "", value |-> x, entered |-> f]
    IN  IF ~found
        THEN out(PyStr(<<"Error: Tool '">> \o Str(tool_name)
                       \o <<"' not found.">>), <<>>)
        ELSE IF params.err = "JSONDecodeError"
        THEN out(PyStr(<<"Error: Invalid JSON arguments provided.">>), <<>>)
        ELSE IF params.err # ""
        THEN [raised |-> TRUE, exc |-> params.err, value |-> None,
              entered |-> <<>>]
        ELSE IF r.raised
        THEN [raised |-> TRUE, exc |-> r.exc, value |-> None,
              entered |-> <<>>]
        ELSE out(r.value, <<data.func>>)

\* __execute_func that goes on to the call when the name is not registered,
\* taking the first registered tool
ExecuteFuncNoLookup(tool_name, tool_parameters_str, dep) ==
    LET data   == IF tool_name.t = "str" /\ tool_name.s \in DOMAIN tool_mapping
                  THEN tool_mapping[tool_name.s]
                  ELSE tool_mapping[CHOOSE k \in DOMAIN tool_mapping : TRUE]
        params == JsonLoads(tool_parameters_str)
        r      == CallFunc(data.func, params, data.hasContext)
        out(x, f) == [raised |-> FALSE, exc |-> "", value |-> x, entered |-> f]
    IN  IF DOMAIN tool_mapping = {}
        THEN out(PyStr(<<"Error: Tool '">> \o Str(tool_name)
                       \o <<"' not found.">>), <<>>)
        ELSE IF params.err # ""
        THEN out(PyStr(<<"Error: Invalid JSON arguments provided.">>), <<>>)
        ELSE IF r.raised
        THEN out(PyStr(<<"Error executing tool '">> \o Str(tool_name)
                       \o <<"': ">> \o r.msg), <<>>)
        ELSE out(r.value, <<data.func>>)

\* Agent.__execute_func: what it returns (or raises) and the callable it
\* entered, if any.
ExecuteFunc(tool_name, tool_parameters_str, dep) ==
    LET found  == tool_name.t = "str" /\ tool_name.s \in DOMAIN tool_mapping
        data   == tool_mapping[tool_name.s]
        params == JsonLoads(tool_parameters_str)
        r      == CallFunc(data.func, params, data.hasContext)
        out(x, f) == [raised |-> FALSE, exc |-> "", value |-> x, entered |-> f]
    IN  IF ~found
        THEN out(PyStr(<<"Error: Tool '">> \o Str(tool_name)
                       \o <<"' not found.">>), <<>>)
        ELSE IF params.err = "JSONDecodeError"
        THEN out(PyStr(<<"Error: Invalid JSON arguments provided.">>), <<>>)
        ELSE IF params.err # ""
        THEN out(PyStr(<<"Error executing tool '">> \o Str(tool_name)
                       \o <<"': ">> \o <<"the JSON object must be str">>), <<>>)
        ELSE IF r.raised
        THEN out(PyStr(<<"Error executing tool '">> \o Str(tool_name)
                       \o <<"': ">> \o r.msg),
                 IF BindError(data.func, params, data.hasContext) = <<>>
                 THEN <<data.func>> ELSE <<>>)
        ELSE out(r.value, <<data.func>>)

\* Agent.__add_available_tool, reached through the tool() decorator
AddAvailableTool(f) ==
    LET schema == FunctionToOpenaiSchema(f, {"strict"})
    IN  /\ tool_mapping' = Put(tool_mapping, FuncName(f),
                               [func |-> f, hasContext |-> HasCtxParameter(f)])
        /\ tool_schemas' = IF schema.raised THEN tool_schemas
                           ELSE Append(tool_schemas, schema.value)
        /\ exc' = schema.exc

\* Agent.tool()(f)
Tool(f) ==
    /\ UNCHANGED <<chainVars, schemaVars, hookVars>>
    /\ CanRegister
    /\ AddAvailableTool(f)
    /\ Registered(Call("tool", FALSE, FALSE, <<>>, 0))
    /\ ret' = RetNone
    /\ UNCHANGED <<hooks, llm_system_prompt, conversation_history, pc,
                   frameVars, obsVars, nRequests, stream>>

\* Agent.system_prompt()(f)
SystemPromptHook(h) ==
    /\ UNCHANGED <<chainVars, schemaVars, hookVars>>
    /\ CanRegister
    /\ hooks' = Put(hooks, SYSTEM_PROMPT, h)
    /\ Registered(Call("system_prompt", FALSE, FALSE, <<>>, 0))
    /\ ret' = RetNone
    /\ exc' = ""
    /\ UNCHANGED <<tool_mapping, tool_schemas, llm_system_prompt,
                   conversation_history, pc, frameVars, obsVars, nRequests,
                   stream>>

\* clear_history that keeps the message 0 it finds
ClearedKeepFirst == <<conversation_history[1]>>

\* Agent.clear_history
Cleared == <<SystemMessage>>

ClearHistory ==
    /\ UNCHANGED <<chainVars, schemaVars, hookVars>>
    /\ CanCall
    /\ conversation_history' = Cleared
    /\ Called(Call("clear_history", FALSE, FALSE, conversation_history, 0))
    /\ ForgetRun
    /\ ret' = RetNone
    /\ exc' = ""
    /\ UNCHANGED <<tool_mapping, tool_schemas, hooks, llm_system_prompt, pc,
                   frameVars, nRequests, stream>>

\* Agent.load_conv
Loaded(conv) == Cleared \o conv

LoadConv(conv) ==
    /\ UNCHANGED <<chainVars, schemaVars, hookVars>>
    /\ CanCall
    /\ conversation_history' = Loaded(conv)
    /\ Called(Call("load_conv", FALSE, FALSE, conv, 0))
    /\ ForgetRun
    /\ ret' = RetNone
    /\ exc' = ""
    /\ UNCHANGED <<tool_mapping, tool_schemas, hooks, llm_system_prompt, pc,
                   frameVars, nRequests, stream>>

\* export_conv that never deletes element 0
ExportedKeepSystem(include_system_prompt, include_tool_calls) ==
    IF ~include_tool_calls
    THEN SelectSeq(conversation_history, LAMBDA msg : msg.role # TOOL)
    ELSE conversation_history

\* Agent.export_conv: the list it returns
Exported(include_system_prompt, include_tool_calls) ==
    LET copy == conversation_history
        c1   == IF ~include_tool_calls
                THEN SelectSeq(copy, LAMBDA msg : msg.role # TOOL)
                ELSE copy
    IN  IF ~include_system_prompt THEN Tail(c1) ELSE c1

\* export_conv deleting element 0 from the live list instead of a copy
AfterExportNoCopy(include_system_prompt, include_tool_calls) ==
    IF ~include_system_prompt THEN Tail(conversation_history)
    ELSE conversation_history

\* Agent.export_conv: what it leaves as the live conversation (the filter
\* and the del act on the copy)
AfterExport(include_system_prompt, include_tool_calls) == conversation_history

\* A read-only call: it is not counted in nOps, and the model takes one
\* between two other calls.
ExportConv(include_system_prompt, include_tool_calls) ==
    /\ UNCHANGED <<chainVars, schemaVars, hookVars>>
    /\ pc = "idle"
    /\ call.op # "export_conv"
    /\ ret' = RetList(Exported(include_system_prompt, include_tool_calls))
    /\ conversation_history' =
          AfterExport(include_system_prompt, include_tool_calls)
    /\ call' = Call("export_conv", include_system_prompt, include_tool_calls,
                    <<>>, 0)
    /\ exc' = ""
    /\ UNCHANGED <<tool_mapping, tool_schemas, hooks, llm_system_prompt, pc,
                   frameVars, obsVars, nOps, nRequests, stream>>

\* AgentChunkResponse(origin=self.name, ...)
AgentChunkResponse(content, metadata, type) ==
    [origin |-> AgentName, content |-> content, metadata |-> metadata,
     type |-> type]

NoMeta == [k \in {} |-> None]
Meta(tool_name, tool_args, tool_id) ==
    [k \in {"tool_name", "tool_args", "tool_id"} |->
        CASE k = "tool_name" -> tool_name
          [] k = "tool_args" -> tool_args
          [] OTHER           -> tool_id]

\* run_stream has returned (or raised): its locals are gone
FrameDropped ==
    /\ dependency' = None
    /\ max_steps' = 0
    /\ step' = 0
    /\ response_message' = <<>>
    /\ tool_calls_aggregator' = <<>>
    /\ tool_i' = 0

\* run_stream, entry: message 0 is rewritten and the user turn appended
RunEntry(conv, dep, prompt) ==
    LET system_prompt == Strip(FormatSystemPrompt(dep, llm_system_prompt))
        c0 == IF system_prompt # <<>>
              THEN [conv EXCEPT ![1] =
                      [role |-> conv[1].role, content |-> PyStr(system_prompt)]]
              ELSE conv
    IN  AppendMessage(c0, USER, PyStr(prompt), <<>>)

RunStream(prompt, dep, ms) ==
    /\ UNCHANGED <<chainVars, schemaVars, hookVars>>
    /\ CanCall
    /\ conversation_history' = RunEntry(conversation_history, dep, prompt)
    /\ dependency' = dep
    /\ max_steps' = ms
    /\ step' = 0
    /\ response_message' = <<>>
    /\ tool_calls_aggregator' = <<>>
    /\ tool_i' = 0
    /\ run_from' = Len(conversation_history)
    /\ requests' = <<>>
    /\ answers' = <<>>
    /\ events' = <<>>
    /\ invoked' = <<>>
    /\ pc' = "loop"
    /\ Called(Call("run_stream", FALSE, FALSE, <<>>, ms))
    /\ ret' = RetNone
    /\ exc' = ""
    /\ UNCHANGED <<tool_mapping, tool_schemas, hooks, llm_system_prompt,
                   nRequests, stream>>

\* a loop that runs one step past the bound
LoopContinuesInclusive == step <= max_steps

\* for step in range(max_steps)
LoopContinues == step < max_steps

\* Agent.__generate_stream_completion: the request handed to the transport
CompletionRequest ==
    [messages |-> conversation_history,
     tools |-> tool_schemas,      \* the empty list stands for None
     tool_choice |-> IF tool_schemas # <<>> THEN PyStr(<<"auto">>) ELSE None]

\* The loop begins a step: buffers reset, the completion requested
GenerateStreamCompletion ==
    /\ UNCHANGED <<chainVars, schemaVars, hookVars>>
    /\ pc = "loop"
    /\ LoopContinues
    /\ step' = step + 1
    /\ response_message' = <<>>
    /\ tool_calls_aggregator' = <<>>
    /\ requests' = Append(requests, CompletionRequest)
    /\ nRequests' = IF nRequests < MaxRequests THEN nRequests + 1
                     ELSE nRequests
    /\ stream' \in IF nRequests < MaxRequests THEN Streams ELSE {<<>>}
    /\ answers' = Append(answers, stream')
    /\ pc' = "stream"
    /\ UNCHANGED <<agentVars, dependency, max_steps, tool_i, run_from, events,
                   invoked, callVars>>

\* range(max_steps) is exhausted: run_stream returns
RunReturns ==
    /\ UNCHANGED <<chainVars, schemaVars, hookVars>>
    /\ pc = "loop"
    /\ ~LoopContinues
    /\ pc' = "idle"
    /\ FrameDropped
    /\ UNCHANGED <<agentVars, obsVars, callVars, nRequests, stream>>

\* an aggregator that keeps the fragments of the latest chunk only
AggregateLatest(aggregator, tool_call_chunks) == tool_call_chunks

\* tool_calls_aggregator.extend(tool_call_chunks)
Aggregate(aggregator, tool_call_chunks) == aggregator \o tool_call_chunks

\* One iteration of "async for chunk in stream"
StreamChunk ==
    /\ UNCHANGED <<chainVars, schemaVars, hookVars>>
    /\ pc = "stream"
    /\ stream # <<>>
    /\ stream' = Tail(stream)
    /\ IF Head(stream).choices = 0
       THEN UNCHANGED <<response_message, tool_calls_aggregator, events>>
       ELSE LET delta == Head(stream).delta
            IN  /\ response_message' =
                      IF Truthy(delta.content)
                      THEN response_message \o delta.content.s
                      ELSE response_message
                /\ events' = events
                      \o (IF Truthy(delta.reasoning)
                          THEN <<AgentChunkResponse(delta.reasoning, NoMeta,
                                                    "reasoning")>>
                          ELSE <<>>)
                      \o (IF Truthy(delta.content)
                          THEN <<AgentChunkResponse(delta.content, NoMeta,
                                                    "response")>>
                          ELSE <<>>)
                /\ tool_calls_aggregator' =
                      IF delta.tool_calls # <<>>
                      THEN Aggregate(tool_calls_aggregator, delta.tool_calls)
                      ELSE tool_calls_aggregator
    /\ UNCHANGED <<agentVars, pc, dependency, max_steps, step, tool_i,
                   run_from, requests, answers, invoked, callVars, nRequests>>

\* The stream ends: the assistant turn is appended; without tool calls the
\* loop breaks and run_stream returns.
StreamEnd ==
    /\ UNCHANGED <<chainVars, schemaVars, hookVars>>
    /\ pc = "stream"
    /\ stream = <<>>
    /\ conversation_history' =
          AppendMessage(conversation_history, ASSISTANT,
                        PyStr(response_message), tool_calls_aggregator)
    /\ IF tool_calls_aggregator = <<>>
       THEN pc' = "idle" /\ FrameDropped
       ELSE /\ pc' = "tools"
            /\ tool_i' = 1
            /\ UNCHANGED <<dependency, max_steps, step, response_message,
                           tool_calls_aggregator>>
    /\ UNCHANGED <<tool_mapping, tool_schemas, hooks, llm_system_prompt,
                   obsVars, callVars, nRequests, stream>>

\* a tool message that is not tied to its call
ToolMessageNoId(tool_id, tool_name, output) ==
    [role |-> TOOL, tool_call_id |-> None, name |-> tool_name,
     content |-> PyStr(Str(output))]

\* a tool message that stores the callable's value as it is
ToolMessageRaw(tool_id, tool_name, output) ==
    [role |-> TOOL, tool_call_id |-> tool_id, name |-> tool_name,
     content |-> output]

\* The tool message __handle_tool_calls appends for a call
ToolMessage(tool_id, tool_name, output) ==
    [role |-> TOOL, tool_call_id |-> tool_id, name |-> tool_name,
     content |-> PyStr(Str(output))]

\* a loop that asks for the next completion when one tool call is handled
AfterToolCallNextStep == "loop"

\* for tool_call in tool_calls_aggregator: the next call, or the next step
\* when the last call is handled
AfterToolCall ==
    IF tool_i = Len(tool_calls_aggregator) THEN "loop" ELSE "tools"

\* One iteration of __handle_tool_calls; an exception out of __execute_func
\* would end run_stream.
HandleToolCall ==
    /\ UNCHANGED <<chainVars, schemaVars, hookVars>>
    /\ pc = "tools"
    /\ LET tool_call == tool_calls_aggregator[tool_i]
           tool_name == tool_call.function.name
           tool_args == tool_call.function.arguments
           tool_id   == tool_call.id
           meta      == Meta(tool_name, tool_args, tool_id)
           r         == ExecuteFunc(tool_name, tool_args, dependency)
       IN  /\ invoked' = invoked \o r.entered
           /\ IF r.raised
              THEN /\ events' = Append(events,
                          AgentChunkResponse(None, meta, "tool_call"))
                   /\ exc' = r.exc
                   /\ pc' = "idle"
                   /\ FrameDropped
                   /\ UNCHANGED conversation_history
              ELSE /\ events' = events
                          \o <<AgentChunkResponse(None, meta, "tool_call"),
                               AgentChunkResponse(r.value, meta,
                                                  "tool_call_result")>>
                   /\ conversation_history' =
                          Append(conversation_history,
                                 ToolMessage(tool_id, tool_name, r.value))
                   /\ tool_i' = tool_i + 1
                   /\ pc' = AfterToolCall
                   /\ UNCHANGED <<exc, dependency, max_steps, step,
                                  response_message, tool_calls_aggregator>>
    /\ UNCHANGED <<tool_mapping, tool_schemas, hooks, llm_system_prompt,
                   run_from, requests, answers, call, ret, nOps, nRequests,
                   stream>>

Next ==
    \/ \E f \in Funcs : Tool(f)
    \/ \E h \in HookFuncs : SystemPromptHook(h)
    \/ ClearHistory
    \/ \E conv \in LoadConvs : LoadConv(conv)
    \/ \E a \in BOOLEAN, b \in BOOLEAN : ExportConv(a, b)
    \/ \E prompt \in Prompts, dep \in Deps, ms \in 0..MaxSteps :
          RunStream(prompt, dep, ms)
    \/ GenerateStreamCompletion
    \/ RunReturns
    \/ StreamChunk
    \/ StreamEnd
    \/ HandleToolCall

Spec == Init /\ [][Next]_vars

\* The steps of a run in progress.  The consumer keeps iterating the
\* generator and the transport's stream ends, so a run that can step does.
RunStep ==
    \/ GenerateStreamCompletion
    \/ RunReturns
    \/ StreamChunk
    \/ StreamEnd
    \/ HandleToolCall

FairSpec == Spec /\ WF_vars(RunStep)

(***************************************************************************)
(* AgentChain (taf/chain.py).  Two chains and two agents; the agents have  *)
(* the system prompt "S", no hooks and no tools but the ask_previous_agent *)
(* that next() registers; the chains' dependency is None.                  *)
(***************************************************************************)
DefaultMaxSteps == 30
Tasks == {<<"t">>}
Placeholder == <<"Task completed successfully. No response needed.">>

\* The f-string of result(), stripped
TaskTemplate(previous_result, task) ==
    Strip(<<"\n", "<previous-result>", "\n",
            "This is the result of the previous agent's work.", "\n", "\n",
            "Previous Result:", "\n">> \o previous_result
          \o <<"\n", "</previous-result>", "\n", "\n", "Current Task:", "\n">>
          \o task \o <<"\n">>)

AskName == <<"ask_previous_agent">>
FragAsk ==
    Fragment(0, PyStr(<<"k">>), PyStr(AskName),
             PyStr(<<"{", Quote("question"), ":", "7", "}">>))
Answer42 == Chunk(1, PyStr(<<"42">>), None, <<>>)

\* The streams the transport answers a chained agent with
FinalStreams == {<<>>, <<Answer42>>, <<ReasoningChunk, Answer42>>}
ChainStreams == FinalStreams \cup {<<ToolChunk(FragAsk)>>}

ResultFrame(c, i, previous_result, agent_response) ==
    [kind |-> "result", chain |-> c, i |-> i,
     previous_result |-> previous_result, agent_response |-> agent_response]
AskFrame(a) == [kind |-> "ask", agent |-> a, agent_response |-> <<>>]
RunFrame(a, k) ==
    [kind |-> "run", agent |-> a, run |-> k, pc |-> "loop", step |-> 0,
     response_message |-> <<>>, tool_calls_aggregator |-> <<>>, tool_i |-> 0,
     stream |-> <<>>]

Top   == frames[Len(frames)]
Below == frames[Len(frames) - 1]
Running == frames # <<>> /\ Top.kind = "run"
ActiveLoops(fs) == Len(SelectSeq(fs, LAMBDA f : f.kind = "run"))

\* run_stream's entry on a chained agent (no hook: the base prompt "S" is
\* written to message 0), and the record of the call
EnterRun(h, a, prompt) ==
    [h EXCEPT ![a] =
        AppendMessage([h[a] EXCEPT ![1] =
                          [role |-> h[a][1].role, content |-> PyStr(<<"S">>)]],
                      USER, prompt, <<>>)]
RunRecord(a, prompt, by) ==
    [agent |-> a, prompt |-> prompt, by |-> by, from |-> Len(history[a]),
     active |-> ActiveLoops(frames), answers |-> <<>>]

\* AgentChain.next(agent, task)
NextAgent(c, a, task) ==
    /\ frames = <<>>
    /\ nNext < MaxNext
    /\ nNext' = nNext + 1
    /\ chain_call' = [op |-> "next", chain |-> c, agent |-> a]
    /\ LET previous_agent == IF agents[c] # <<>>
                             THEN agents[c][Len(agents[c])].agent ELSE "none"
           schema == FunctionToOpenaiSchema("ask_previous_agent", {"strict"})
       IN  IF previous_agent # "none"
           THEN \* @agent.tool(): the registry entry is written, then the
                \* schema call raises or not
                /\ ask_previous' = [ask_previous EXCEPT ![a] = previous_agent]
                /\ chain_exc' = schema.exc
                /\ agents' = IF schema.raised THEN agents
                             ELSE [agents EXCEPT ![c] =
                                     Append(@, [agent |-> a, task |-> task])]
           ELSE /\ agents' = [agents EXCEPT ![c] =
                                Append(@, [agent |-> a, task |-> task])]
                /\ chain_exc' = ""
                /\ UNCHANGED ask_previous
    /\ UNCHANGED <<history, frames, chain_ret, runs, nAnswers>>
    /\ UNCHANGED <<loopVars, schemaVars, hookVars>>

\* The task result() gives to agent i of chain c
TaskOf(c, i, previous_result) ==
    IF Truthy(previous_result)
    THEN PyStr(TaskTemplate(previous_result.s, agents[c][i].task))
    ELSE PyStr(agents[c][i].task)

\* a result() that raises nothing
NoAgentsIgnored(c) == ""

\* if not self.agents: raise Exception("No agents set for this chain.")
NoAgents(c) == IF agents[c] = <<>> THEN "Exception" ELSE ""

\* AgentChain.result(), awaited: it raises on an empty chain, else begins
\* the first agent's run
Result(c) ==
    /\ frames = <<>>
    /\ runs = <<>>
    /\ chain_ret' = None
    /\ chain_call' = [op |-> "result", chain |-> c, agent |-> "none"]
    /\ chain_exc' = NoAgents(c)
    /\ IF NoAgents(c) # "" \/ agents[c] = <<>>
       THEN UNCHANGED <<frames, history, runs>>
       ELSE LET a == agents[c][1].agent
                task == TaskOf(c, 1, None)
            IN  /\ frames' = <<ResultFrame(c, 1, None, <<>>), RunFrame(a, 1)>>
                /\ history' = EnterRun(history, a, task)
                /\ runs' = Append(runs, RunRecord(a, task, "result"))
    /\ UNCHANGED <<agents, ask_previous, nNext, nAnswers>>
    /\ UNCHANGED <<loopVars, schemaVars, hookVars>>

SetTop(f) == [frames EXCEPT ![Len(frames)] = f]

\* for step in range(max_steps): the next completion is requested, or the
\* range is exhausted and the run ends
ChainLoop ==
    /\ Running /\ Top.pc = "loop"
    /\ IF Top.step < DefaultMaxSteps
       THEN \E s \in (IF nAnswers < MaxAnswers THEN ChainStreams
                      ELSE FinalStreams) :
               /\ frames' = SetTop([Top EXCEPT !.step = @ + 1,
                                               !.response_message = <<>>,
                                               !.tool_calls_aggregator = <<>>,
                                               !.stream = s,
                                               !.pc = "stream"])
               /\ nAnswers' = IF s \in FinalStreams THEN nAnswers
                              ELSE nAnswers + 1
               /\ runs' = [runs EXCEPT ![Top.run].answers = Append(@, s)]
       ELSE /\ frames' = SetTop([Top EXCEPT !.pc = "done"])
            /\ UNCHANGED <<nAnswers, runs>>
    /\ UNCHANGED <<agents, ask_previous, history, chain_ret, chain_exc,
                   chain_call, nNext>>
    /\ UNCHANGED <<loopVars, schemaVars, hookVars>>

\* a result() that adds response content only
ConsumeResponseOnly(f, type, content) ==
    IF type = "response" THEN [f EXCEPT !.agent_response = @ \o content.s]
    ELSE f

\* What the consumer of a run does with a yielded chunk: result() adds
\* reasoning and response content, __get_agent_final_answer response content
Consume(f, type, content) ==
    IF \/ f.kind = "result" /\ type \in {"reasoning", "response"}
       \/ f.kind = "ask" /\ type = "response"
    THEN [f EXCEPT !.agent_response = @ \o content.s]
    ELSE f

\* One iteration of "async for chunk in stream" in a chained agent's run
ChainStreamChunk ==
    /\ Running /\ Top.pc = "stream" /\ Top.stream # <<>>
    /\ LET chunk == Head(Top.stream)
           delta == chunk.delta
           f1 == IF chunk.choices # 0 /\ Truthy(delta.reasoning)
                 THEN Consume(Below, "reasoning", delta.reasoning) ELSE Below
           f2 == IF chunk.choices # 0 /\ Truthy(delta.content)
                 THEN Consume(f1, "response", delta.content) ELSE f1
           t  == IF chunk.choices = 0 THEN [Top EXCEPT !.stream = Tail(@)]
                 ELSE [Top EXCEPT
                         !.stream = Tail(@),
                         !.response_message =
                             IF Truthy(delta.content) THEN @ \o delta.content.s
                             ELSE @,
                         !.tool_calls_aggregator =
                             IF delta.tool_calls # <<>>
                             THEN Aggregate(@, delta.tool_calls) ELSE @]
       IN  frames' = [frames EXCEPT ![Len(frames)] = t,
                                    ![Len(frames) - 1] = f2]
    /\ UNCHANGED <<agents, ask_previous, history, chain_ret, chain_exc,
                   chain_call, runs, nNext, nAnswers>>
    /\ UNCHANGED <<loopVars, schemaVars, hookVars>>

\* The stream ends: the assistant turn is appended; without tool calls the
\* run ends
ChainStreamEnd ==
    /\ Running /\ Top.pc = "stream" /\ Top.stream = <<>>
    /\ history' = [history EXCEPT ![Top.agent] =
                     AppendMessage(@, ASSISTANT, PyStr(Top.response_message),
                                   Top.tool_calls_aggregator)]
    /\ frames' = SetTop(IF Top.tool_calls_aggregator = <<>>
                        THEN [Top EXCEPT !.pc = "done"]
                        ELSE [Top EXCEPT !.pc = "tools", !.tool_i = 1])
    /\ UNCHANGED <<agents, ask_previous, chain_ret, chain_exc, chain_call,
                   runs, nNext, nAnswers>>
    /\ UNCHANGED <<loopVars, schemaVars, hookVars>>

\* a run that leaves the tool calls of the step when one has returned
AdvancedRestart(f) == [f EXCEPT !.pc = "loop"]

\* The run frame f after the tool message for its pending call is appended
Advanced(f) ==
    [f EXCEPT !.tool_i = @ + 1,
              !.pc = IF f.tool_i = Len(f.tool_calls_aggregator)
                     THEN "loop" ELSE "tools"]

\* __execute_func on a chained agent, up to the call of the tool: the error
\* text it returns, or None when ask_previous_agent(question) is called
AskRefused(a, tool_name, tool_parameters_str) ==
    LET found  == /\ tool_name.t = "str" /\ tool_name.s = AskName
                  /\ ask_previous[a] # "none"
        params == JsonLoads(tool_parameters_str)
        failed(x) == PyStr(<<"Error executing tool '">> \o Str(tool_name)
                           \o <<"': ">> \o x)
    IN  IF ~found
        THEN PyStr(<<"Error: Tool '">> \o Str(tool_name) \o <<"' not found.">>)
        ELSE IF params.err = "JSONDecodeError"
        THEN PyStr(<<"Error: Invalid JSON arguments provided.">>)
        ELSE IF params.err # ""
        THEN failed(<<"the JSON object must be str">>)
        ELSE IF params.kind # "dict"
        THEN failed(AskName \o <<"() argument after ** must be a mapping, not ",
                                 params.kind>>)
        ELSE IF DOMAIN params.d # {"question"}
        THEN failed(<<"missing or unexpected keyword argument">>)
        ELSE None

\* One iteration of __handle_tool_calls in a chained agent's run: the call
\* is refused with an error text, or ask_previous_agent begins the previous
\* agent's run
ChainToolCall ==
    /\ Running /\ Top.pc = "tools"
    /\ LET tool_call == Top.tool_calls_aggregator[Top.tool_i]
           tool_name == tool_call.function.name
           tool_args == tool_call.function.arguments
           refused   == AskRefused(Top.agent, tool_name, tool_args)
           previous_agent == ask_previous[Top.agent]
           question  == PyInt(JsonLoads(tool_args).d["question"])
       IN  IF refused # None
           THEN /\ history' = [history EXCEPT ![Top.agent] =
                                 Append(@, ToolMessage(tool_call.id, tool_name,
                                                       refused))]
                /\ frames' = SetTop(Advanced(Top))
                /\ UNCHANGED runs
           ELSE /\ frames' = frames \o <<AskFrame(previous_agent),
                                         RunFrame(previous_agent,
                                                  Len(runs) + 1)>>
                /\ history' = EnterRun(history, previous_agent, question)
                /\ runs' = Append(runs, RunRecord(previous_agent, question,
                                                  "ask"))
    /\ UNCHANGED <<agents, ask_previous, chain_ret, chain_exc, chain_call,
                   nNext, nAnswers>>
    /\ UNCHANGED <<loopVars, schemaVars, hookVars>>

\* The previous agent's run has ended: ask_previous_agent returns
\* {"agent_response": response} and the asking run appends the tool message
AskReturns ==
    /\ Running /\ Top.pc = "done" /\ Below.kind = "ask"
    /\ LET caller    == frames[Len(frames) - 2]
           tool_call == caller.tool_calls_aggregator[caller.tool_i]
           output    == PyDict(Below.agent_response)
       IN  /\ history' = [history EXCEPT ![caller.agent] =
                            Append(@, ToolMessage(tool_call.id,
                                                  tool_call.function.name,
                                                  output))]
           /\ frames' = SubSeq(frames, 1, Len(frames) - 3)
                        \o <<Advanced(caller)>>
    /\ UNCHANGED <<agents, ask_previous, chain_ret, chain_exc, chain_call,
                   runs, nNext, nAnswers>>
    /\ UNCHANGED <<loopVars, schemaVars, hookVars>>

\* An agent's run under result() has ended: its answer (or the placeholder)
\* becomes previous_result; the next agent's run begins, or result() returns
ResultNext ==
    /\ Running /\ Top.pc = "done" /\ Below.kind = "result"
    /\ LET c == Below.chain
           previous_result ==
               PyStr(IF Below.agent_response # <<>> THEN Below.agent_response
                     ELSE Placeholder)
       IN  IF Below.i < Len(agents[c])
           THEN LET a == agents[c][Below.i + 1].agent
                    task == TaskOf(c, Below.i + 1, previous_result)
                IN  /\ frames' = <<ResultFrame(c, Below.i + 1, previous_result,
                                               <<>>),
                                   RunFrame(a, Len(runs) + 1)>>
                    /\ history' = EnterRun(history, a, task)
                    /\ runs' = Append(runs, RunRecord(a, task, "result"))
                    /\ UNCHANGED chain_ret
           ELSE /\ frames' = <<>>
                /\ chain_ret' = previous_result
                /\ UNCHANGED <<history, runs>>
    /\ UNCHANGED <<agents, ask_previous, chain_exc, chain_call, nNext,
                   nAnswers>>
    /\ UNCHANGED <<loopVars, schemaVars, hookVars>>

ChainStep ==
    \/ \E c \in Chains, a \in Agents, task \in Tasks : NextAgent(c, a, task)
    \/ \E c \in Chains : Result(c)
    \/ ChainLoop
    \/ ChainStreamChunk
    \/ ChainStreamEnd
    \/ ChainToolCall
    \/ AskReturns
    \/ ResultNext

ChainStart == Init /\ llm_system_prompt = <<"S">>

ChainSpec == ChainStart /\ [][ChainStep]_vars

(***************************************************************************)
(* tools.py: schema inference, applied to the signature of a callable f.   *)
(* An annotation is a record of its kind k and its arguments:              *)
(*   empty           no annotation (inspect.Parameter.empty)               *)
(*   None            the annotation None                                   *)
(*   int str float bool NoneType bytes list    the classes                 *)
(*   text            the string "Optional[int]", as inspect.signature      *)
(*                   gives it under postponed evaluation of annotations    *)
(*   Union           typing.Union[...] and typing.Optional[...]            *)
(*   UnionType       X | Y                                                 *)
(*   Literal         typing.Literal[...]                                   *)
(*   list_of         list[...], and typing.List when without arguments     *)
(*   dict_of         dict[...], and typing.Dict when without arguments     *)
(***************************************************************************)
Ann(k)        == [k |-> k, args |-> <<>>]
AnnOf(k, xs)  == [k |-> k, args |-> xs]

Members == {Ann("int"), Ann("str"), Ann("NoneType")}

Annotations ==
    {Ann(k) : k \in {"empty", "None", "int", "str", "float", "bool", "bytes",
                     "list", "text"}}
    \cup {AnnOf(u, xs) : u \in {"Union", "UnionType"},
                         xs \in {ys \in Members \X Members : ys[1] # ys[2]}}
    \cup {AnnOf(u, xs) : u \in {"Union", "UnionType"},
                         xs \in {<<Ann("int"), Ann("str"), Ann("NoneType")>>,
                                 <<Ann("NoneType"), Ann("int"), Ann("str")>>}}
    \cup {AnnOf("Literal", <<"a", "b">>)}
    \cup {AnnOf("list_of", xs) :
            xs \in {<<>>, <<Ann("int")>>,
                    <<AnnOf("Union", <<Ann("int"), Ann("NoneType")>>)>>,
                    <<AnnOf("UnionType", <<Ann("int"), Ann("NoneType")>>)>>}}
    \cup {AnnOf("dict_of", xs) : xs \in {<<>>, <<Ann("str"), Ann("int")>>}}

ParamNames == {"n", "q", "ctx"}

\* inspect.signature(function).parameters, in order, names distinct
Signatures ==
    {sig \in UNION {[1..k -> [name : ParamNames, annotation : Annotations,
                              has_default : BOOLEAN]] : k \in 0..MaxParams} :
        \A i \in DOMAIN sig, j \in DOMAIN sig :
            i # j => sig[i].name # sig[j].name}

\* typing.get_origin
GetOrigin(annotation) ==
    CASE annotation.k = "Union"     -> "Union"
      [] annotation.k = "UnionType" -> IF union_is_typing_union THEN "Union"
                                       ELSE "UnionType"
      [] annotation.k = "Literal"   -> "Literal"
      [] annotation.k = "list_of"   -> "list"
      [] annotation.k = "dict_of"   -> "dict"
      [] OTHER                      -> "none"

\* typing.get_args
GetArgs(annotation) == annotation.args

StringSchema == [type |-> "string"]

\* type_map.get(annotation, "string")
TypeMap(annotation) ==
    CASE annotation.k = "str"   -> "string"
      [] annotation.k = "int"   -> "integer"
      [] annotation.k = "float" -> "number"
      [] annotation.k = "bool"  -> "boolean"
      [] OTHER                  -> "string"

\* ToolUtils._get_type_schema
RECURSIVE GetTypeSchema(_)
GetTypeSchema(annotation) ==
    LET args == GetArgs(annotation)
    IN  IF annotation.k \in {"empty", "None"} THEN StringSchema
        ELSE IF GetOrigin(annotation) = "Union"
        THEN IF Len(args) = 2 /\ \E i \in 1..2 : args[i] = Ann("NoneType")
             THEN GetTypeSchema(
                      args[CHOOSE i \in 1..2 :
                             /\ args[i] # Ann("NoneType")
                             /\ \A j \in 1..(i - 1) : args[j] = Ann("NoneType")])
             ELSE GetTypeSchema(args[1])
        ELSE IF GetOrigin(annotation) = "Literal"
        THEN [type |-> "string", enum |-> args]
        ELSE IF GetOrigin(annotation) = "list"
        THEN [type |-> "array",
              items |-> IF args # <<>> THEN GetTypeSchema(args[1])
                        ELSE StringSchema]
        ELSE IF GetOrigin(annotation) = "dict"
        THEN [type |-> "object",
              additionalProperties |->
                  IF Len(args) > 1 THEN GetTypeSchema(args[2])
                  ELSE StringSchema]
        ELSE [type |-> TypeMap(annotation)]

\* The parameters the schema describes: all but the reserved ctx
Described(sig) == SelectSeq(sig, LAMBDA p : p.name # "ctx")

\* The names appended to required, in order
RECURSIVE Required(_)
Required(ps) ==
    IF ps = <<>> THEN <<>>
    ELSE (IF Head(ps).has_default THEN <<>> ELSE <<Head(ps).name>>)
         \o Required(Tail(ps))

SchemaOf(name, doc, properties, required) ==
    [type |-> "function",
     function |-> [name |-> name, description |-> doc,
                   parameters |-> [type |-> "object",
                                   properties |-> properties,
                                   required |-> required]]]

\* ToolUtils.function_to_openai_schema(function), for a function f without
\* docstring whose signature is sig
OpenaiSchema(sig) ==
    LET ps == Described(sig)
    IN  SchemaOf(<<"f">>, None,
                 [n \in {ps[i].name : i \in 1..Len(ps)} |->
                     GetTypeSchema(
                         ps[CHOOSE i \in 1..Len(ps) : ps[i].name = n].annotation)],
                 Required(ps))

(***************************************************************************)
(* src/agent.py: the legacy __extract_tool_schema.                         *)
(***************************************************************************)
\* type_map.get(getattr(x, '__name__', str(annotation)).lower(), "string")
LegacyType(x) ==
    IF x.k \in {"str", "int", "float", "bool"} THEN TypeMap(x) ELSE "string"

LegacyParamSchema(annotation) ==
    LET args == GetArgs(annotation)
    IN  IF GetOrigin(annotation) = "Literal"
        THEN [type |-> "string", enum |-> args]
        ELSE IF GetOrigin(annotation) = "list"
        THEN [type |-> "array",
              items |-> [type |-> IF args # <<>> THEN LegacyType(args[1])
                                  ELSE "string"]]
        ELSE IF GetOrigin(annotation) = "dict"
        THEN [type |-> "object",
              additionalProperties |->
                  [type |-> IF Len(args) = 2 THEN LegacyType(args[2])
                            ELSE "string"]]
        ELSE IF annotation.k # "empty"
        THEN [type |-> LegacyType(annotation)]
        ELSE StringSchema

ExtractToolSchema(sig) ==
    LET ps == Described(sig)
    IN  SchemaOf(<<"f">>, None,
                 [n \in {ps[i].name : i \in 1..Len(ps)} |->
                     LegacyParamSchema(
                         ps[CHOOSE i \in 1..Len(ps) : ps[i].name = n].annotation)],
                 Required(ps))

\* A caller hands f to ToolUtils.function_to_openai_schema.
InferSchema ==
    /\ tool_schema = None
    /\ tool_schema' = OpenaiSchema(signature)
    /\ UNCHANGED <<signature, union_is_typing_union, legacy_schema>>
    /\ UNCHANGED <<loopVars, chainVars, hookVars>>

\* A caller registers f on a legacy agent.
LegacyInferSchema ==
    /\ legacy_schema = None
    /\ legacy_schema' = ExtractToolSchema(signature)
    /\ UNCHANGED <<signature, union_is_typing_union, tool_schema>>
    /\ UNCHANGED <<loopVars, chainVars, hookVars>>

SchemaStep == InferSchema \/ LegacyInferSchema

\* Any callable f, on an interpreter of either kind
SchemaInit ==
    /\ signature \in Signatures
    /\ union_is_typing_union \in BOOLEAN
    /\ tool_schema = None
    /\ legacy_schema = None

SchemaStart ==
    /\ AgentInit /\ llm_system_prompt = <<"S">>
    /\ ChainInit /\ SchemaInit /\ HookIdle

SchemaSpec == SchemaStart /\ [][SchemaStep]_vars

(***************************************************************************)
(* The hook registry of an agent: the decorators hook(hook_type) and       *)
(* system_prompt(), and __call_hook applied to any event and keyword       *)
(* arguments.                                                              *)
(***************************************************************************)
HookEvents == {SYSTEM_PROMPT, ON_AGENT_STEP}

\* The keyword arguments of a __call_hook
HookKwargs ==
    {[k \in {"ctx"} |-> d] : d \in Deps}
    \cup {[k \in {"ctx", "step"} |-> IF k = "ctx" THEN d ELSE PyInt(1)] :
            d \in Deps}

\* Agent.hook(hook_type)(f), and Agent.system_prompt()(f), which registers
\* for SYSTEM_PROMPT
RegisterHook(hook_type, f, via) ==
    /\ Len(hook_log) < MaxHooks
    /\ via = "system_prompt" => hook_type = SYSTEM_PROMPT
    /\ hooks' = Put(hooks, hook_type, f)
    /\ hook_log' = Append(hook_log,
                          [event |-> hook_type, func |-> f, via |-> via])
    /\ UNCHANGED <<hook_call, hook_ret>>
    /\ UNCHANGED <<tool_mapping, tool_schemas, llm_system_prompt,
                   conversation_history, pc, frameVars, obsVars, callVars,
                   nRequests, stream>>
    /\ UNCHANGED <<chainVars, schemaVars>>

\* Agent.__call_hook(hook_type, **params)
InvokeHook(hook_type, params) ==
    /\ hook_call' = [event |-> hook_type, params |-> params]
    /\ hook_ret' = CallHook(hook_type, params)
    /\ UNCHANGED <<hook_log, loopVars, chainVars, schemaVars>>

HookStep ==
    \/ \E t \in HookEvents, f \in Handlers, via \in {"hook", "system_prompt"} :
          RegisterHook(t, f, via)
    \/ \E t \in HookEvents, params \in HookKwargs : InvokeHook(t, params)

HookStart == Init /\ llm_system_prompt = <<"S">>

HookSpec == HookStart /\ [][HookStep]_vars

(***************************************************************************)
(* The claims.                                                             *)
(***************************************************************************)
Roles(conv) == [i \in 1..Len(conv) |-> conv[i].role]

NoToolFragments(s) ==
    \A i \in 1..Len(s) : s[i].choices = 0 \/ s[i].delta.tool_calls = <<>>

\* The latest run began on a conversation holding only the system message
\* and its first completion streamed no tool-call fragment.
FreshRunFirstAnswerFinal ==
    /\ run_from = 1
    /\ requests # <<>>
    /\ NoToolFragments(answers[1])

\* C1: a run started on a conversation that holds only the system message,
\* whose first streamed completion has no tool-call fragment, issues exactly
\* one completion request and returns without raising; the conversation then
\* exports, with the system prompt included, as exactly the three messages
\* system, user, assistant.
C1_FinalAnswerInOneStep ==
    FreshRunFirstAnswerFinal =>
        /\ Len(requests) = 1
        /\ pc \in {"stream", "idle"}
        /\ exc = ""
        /\ pc = "idle" =>
              /\ \A b \in BOOLEAN :
                    Roles(Exported(TRUE, b)) = <<SYSTEM, USER, ASSISTANT>>
              /\ (call.op = "export_conv" /\ call.a1) =>
                    Roles(ret.v) = <<SYSTEM, USER, ASSISTANT>>

C1_Witness ==
    /\ FreshRunFirstAnswerFinal
    /\ pc = "idle"
    /\ call.op = "export_conv" /\ call.a1
    /\ Len(ret.v) = 3
    /\ ret.v[3].content = PyStr(<<"Hi">>)

\* C2: stream fragments that share a stream index are aggregated into one
\* tool call: no assistant message records two tool calls with the same
\* index, and no tool call is recorded without the id and name its first
\* fragment introduced.
C2_FragmentsAggregatedByIndex ==
    \A i \in 1..Len(conversation_history) :
        LET m == conversation_history[i]
        IN  (i > run_from /\ "tool_calls" \in DOMAIN m) =>
               /\ \A j, k \in 1..Len(m.tool_calls) :
                     j # k => m.tool_calls[j].index # m.tool_calls[k].index
               /\ \A j \in 1..Len(m.tool_calls) :
                     /\ m.tool_calls[j].id # None
                     /\ m.tool_calls[j].function.name # None

\* The tool messages of the step in progress: one for each tool call
\* handled so far, in order, directly after the step's assistant message.
ToolTurnsInOrder ==
    pc = "tools" =>
       LET n    == Len(conversation_history)
           done == tool_i - 1
       IN  /\ tool_i <= Len(tool_calls_aggregator)
           /\ n - done > run_from
           /\ conversation_history[n - done].role = ASSISTANT
           /\ \A k \in 1..done :
                 LET m == conversation_history[n - done + k]
                 IN  /\ m.role = TOOL
                     /\ m.tool_call_id = tool_calls_aggregator[k].id
                     /\ m.name = tool_calls_aggregator[k].function.name
                     /\ m.content.t = "str"

\* C3: whatever tool call the model requests (an unregistered name, argument
\* text that is not JSON or not a JSON object, a callable that raises),
\* executing it yields a value that is appended as a tool message and the
\* loop goes on: no exception leaves run_stream.
C3_ToolFailuresAbsorbed ==
    /\ call.op = "run_stream" => exc = ""
    /\ pc # "idle" => exc = ""
    /\ ToolTurnsInOrder
    /\ pc = "loop" /\ step > 0 =>
          conversation_history[Len(conversation_history)].role = TOOL

BoomFailed ==
    ToolMessage(PyStr(<<"b">>), PyStr(<<"boom">>),
                PyStr(<<"Error executing tool '", "boom", "': ", "bad">>))
ListRefused ==
    ToolMessage(PyStr(<<"l">>), PyStr(<<"add">>),
                PyStr(<<"Error executing tool '", "add", "': ", "add",
                        "() argument after ** must be a mapping, not ",
                        "list">>))
HeadRefused ==
    ToolMessage(PyStr(<<"a">>), PyStr(<<"add">>),
                PyStr(<<"Error: Invalid JSON arguments provided.">>))

InConversation(m) ==
    \E i \in 1..Len(conversation_history) :
        i > run_from /\ conversation_history[i] = m

\* A callable raised, a later request was made, and in another step argument
\* text that is no JSON was refused.
C3_Witness ==
    /\ Len(requests) = 2
    /\ InConversation(BoomFailed)
    /\ InConversation(HeadRefused) \/ InConversation(ListRefused)
    /\ invoked # <<>>
    /\ exc = ""

\* C4: when the requested tool name N is not in the registry, whatever the
\* argument text, no callable is entered, nothing is raised, and the tool
\* message appended for the call has the content "Error: Tool 'N' not found.".
C4_UnregisteredToolReported ==
    [][(pc = "tools"
        /\ LET name == tool_calls_aggregator[tool_i].function.name
           IN  name.t # "str" \/ name.s \notin DOMAIN tool_mapping)
       => LET tc == tool_calls_aggregator[tool_i]
          IN  /\ conversation_history' =
                    Append(conversation_history,
                           [role |-> TOOL, tool_call_id |-> tc.id,
                            name |-> tc.function.name,
                            content |-> PyStr(<<"Error: Tool '">>
                                              \o Str(tc.function.name)
                                              \o <<"' not found.">>)])
              /\ invoked' = invoked
              /\ exc' = ""]_vars

C4_Witness ==
    /\ InConversation(ToolMessage(PyStr(<<"s">>), PyStr(<<"sub">>),
                                  PyStr(<<"Error: Tool '", "sub", "' not found.">>)))
    /\ DOMAIN tool_mapping # {}
    /\ exc = ""

AddResult ==
    [role |-> TOOL, tool_call_id |-> PyStr(<<"a">>), name |-> PyStr(<<"add">>),
     content |-> PyStr(<<"5">>)]

\* The callable registered under the name add is the sum.
AddRegistered ==
    /\ <<"add">> \in DOMAIN tool_mapping
    /\ tool_mapping[<<"add">>].func = "add"

IsPrefix(a, b) == Len(a) <= Len(b) /\ a = SubSeq(b, 1, Len(a))

\* C5: executing the call {id a, name add, arguments {"a":2,"b":3}} with add
\* registered enters add and appends exactly the message {role tool,
\* tool_call_id a, name add, content "5"}; and every later completion request
\* of the run is passed the conversation as it stands, the tool messages of
\* the step before included (the add result when that step asked for add).
C5_ToolResultFedBack ==
    /\ [][(pc = "tools" /\ tool_calls_aggregator[tool_i] = FragAdd
           /\ AddRegistered)
          => /\ conversation_history' = Append(conversation_history, AddResult)
             /\ invoked' = Append(invoked, "add")
             /\ exc' = ""]_vars
    /\ [](\A k \in 2..Len(requests) :
             LET msgs == requests[k].messages
             IN  /\ IsPrefix(msgs, conversation_history)
                 /\ IsPrefix(requests[k - 1].messages, msgs)
                 /\ msgs[Len(msgs)].role = TOOL
                 /\ (answers[k - 1] = <<ToolChunk(FragAdd)>>
                     /\ AddRegistered)
                    => msgs[Len(msgs)] = AddResult)

C5_Witness ==
    /\ Len(requests) = 2
    /\ answers[1] = <<ToolChunk(FragAdd)>>
    /\ requests[2].messages[Len(requests[2].messages)] = AddResult
    /\ invoked = <<"add">>

\* C6: a run given max_steps issues at most max_steps completion requests
\* and raises nothing; every run in progress comes to its end, whatever the
\* completions ask for.
C6_StepCeiling ==
    /\ [](/\ pc # "idle" => Len(requests) = step /\ step <= max_steps
          /\ call.op = "run_stream" => Len(requests) <= call.n /\ exc = "")
    /\ (pc # "idle") ~> (pc = "idle" /\ exc = "")

\* A run that asked for tools at every step has ended at the bound.
C6_Witness ==
    /\ pc = "idle"
    /\ call.op = "run_stream"
    /\ call.n = MaxSteps
    /\ Len(requests) = MaxSteps
    /\ conversation_history[Len(conversation_history)].role = TOOL
    /\ exc = ""

WellFormed(m) ==
    /\ {"role", "content"} \subseteq DOMAIN m
    /\ m.content = None <=> "tool_calls" \in DOMAIN m
    /\ m.role = TOOL => {"tool_call_id", "name"} \subseteq DOMAIN m

\* C7: every message run_stream appends (the user turn, the assistant turns,
\* the tool messages) has content None exactly when it has the key
\* tool_calls, and every tool message has the keys tool_call_id and name; so
\* has every message of a conversation no load_conv has filled.
C7_MessagesWellFormed ==
    /\ \A i \in 1..Len(conversation_history) :
          i > run_from => WellFormed(conversation_history[i])
    /\ run_from = 1 =>
          \A i \in 1..Len(conversation_history) :
              WellFormed(conversation_history[i])

\* An assistant turn whose streamed text was replaced by None next to its
\* tool calls, and the tool messages of those calls.
C7_Witness ==
    /\ run_from = 1
    /\ Len(conversation_history) >= 5
    /\ conversation_history[3].content = None
    /\ Len(conversation_history[3].tool_calls) = 2
    /\ answers[1][1] = ContentChunk
    /\ conversation_history[4].role = TOOL
    /\ conversation_history[5].role = TOOL

\* C8: the conversation is never empty and its first message has the role
\* system; when a run starts, that message holds the system prompt composed
\* for this run (the base prompt, joined with the hook's output when there is
\* some), stripped or not; after clear_history and load_conv it holds the
\* base prompt.
C8_SystemMessageCurrent ==
    /\ [](/\ Len(conversation_history) >= 1
          /\ conversation_history[1].role = SYSTEM
          /\ DOMAIN conversation_history[1] = {"role", "content"})
    /\ [][(pc = "idle" /\ pc' = "loop") =>
             LET p == FormatSystemPrompt(dependency', llm_system_prompt)
             IN  conversation_history'[1].content \in {PyStr(p), PyStr(Strip(p))}
         ]_vars
    /\ [][call'.op \in {"clear_history", "load_conv"} /\ nOps' = nOps + 1 =>
             conversation_history'[1].content = PyStr(llm_system_prompt)]_vars

\* C8, the part the code keeps: the conversation is never empty and its
\* first message has the role system.
C8_SystemMessageInPlace ==
    /\ Len(conversation_history) >= 1
    /\ conversation_history[1].role = SYSTEM

\* C9 as stated: export_conv(include_system_prompt=True,
\* include_tool_calls=True) right after load_conv(X) returns X.
C9_RoundTrip ==
    [][(call.op = "load_conv" /\ call'.op = "export_conv"
        /\ call'.a1 /\ call'.a2)
       => ret'.v = call.conv]_vars

\* C9, amended: right after load_conv(X), export_conv(include_system_prompt=
\* False, include_tool_calls=True) returns X, and with include_system_prompt=
\* True it returns the system message holding the base prompt followed by X.
C9_RoundTripAmended ==
    [][(call.op = "load_conv" /\ call'.op = "export_conv" /\ call'.a2)
       => ret'.v = IF call'.a1
                   THEN <<[role |-> SYSTEM,
                           content |-> PyStr(llm_system_prompt)]>> \o call.conv
                   ELSE call.conv]_vars

C9_Witness ==
    /\ call.op = "export_conv" /\ ~call.a1 /\ call.a2
    /\ run_from = Len(conversation_history)
    /\ Len(ret.v) = 2
    /\ ret.v \in LoadConvs
    /\ conversation_history = <<SystemMessage>> \o ret.v

KeptIndexes(conv, include_system_prompt, include_tool_calls) ==
    SelectSeq([i \in 1..Len(conv) |-> i],
              LAMBDA i : /\ ~(i = 1 /\ ~include_system_prompt)
                         /\ ~(conv[i].role = TOOL /\ ~include_tool_calls))

\* C10: a call of export_conv leaves the conversation as it was, and returns
\* its messages in order without the first one when include_system_prompt is
\* false and without the tool messages when include_tool_calls is false.
C10_ExportIsPure ==
    [][call'.op = "export_conv" /\ call.op # "export_conv" =>
          LET kept == KeptIndexes(conversation_history, call'.a1, call'.a2)
          IN  /\ conversation_history' = conversation_history
              /\ ret'.v = [k \in 1..Len(kept) |-> conversation_history[kept[k]]]
      ]_vars

\* export_conv(False, False) has dropped the system message and tool
\* messages of a conversation that holds some, and kept the rest.
C10_Witness ==
    /\ call.op = "export_conv" /\ ~call.a1 /\ ~call.a2
    /\ \E i \in 1..Len(conversation_history) :
          conversation_history[i].role = TOOL
    /\ ret.v # <<>>
    /\ Len(ret.v) < Len(conversation_history) - 1
    /\ \A i \in 1..Len(ret.v) : ret.v[i].role \in {USER, ASSISTANT}

\* C11: whatever the conversation holds (messages of runs, loaded messages, a
\* message 0 rewritten with hook output), clear_history leaves exactly one
\* message, the system message holding the base system prompt, and changes
\* nothing else of the agent; a clear_history that directly follows a
\* clear_history leaves the agent as it found it.
C11_ClearResets ==
    [][(call'.op = "clear_history" /\ nOps' = nOps + 1) =>
          /\ conversation_history' =
                <<[role |-> SYSTEM, content |-> PyStr(llm_system_prompt)]>>
          /\ <<tool_mapping, tool_schemas, hooks, llm_system_prompt>>' =
                <<tool_mapping, tool_schemas, hooks, llm_system_prompt>>
          /\ exc' = ""
          /\ call.op = "clear_history" => agentVars' = agentVars
      ]_vars

\* A conversation whose message 0 was rewritten with the hook's output and
\* that held a tool message has been cleared.
C11_Witness ==
    /\ call.op = "clear_history"
    /\ call.conv[1].content = PyStr(<<"S", "\n", "H">>)
    /\ \E i \in 1..Len(call.conv) : call.conv[i].role = TOOL
    /\ conversation_history = <<[role |-> SYSTEM, content |-> PyStr(<<"S">>)]>>

Contains(x, sub) ==
    \E i \in 0..(Len(x) - Len(sub)) : SubSeq(x, i + 1, i + Len(sub)) = sub

\* The content of the chunks of the given types in a stream, in order
RECURSIVE StreamText(_, _)
StreamText(st, types) ==
    IF st = <<>> THEN <<>>
    ELSE LET ch == Head(st)
             r  == IF ch.choices # 0 /\ "reasoning" \in types
                      /\ Truthy(ch.delta.reasoning)
                   THEN ch.delta.reasoning.s ELSE <<>>
             t  == IF ch.choices # 0 /\ "response" \in types
                      /\ Truthy(ch.delta.content)
                   THEN ch.delta.content.s ELSE <<>>
         IN  r \o t \o StreamText(Tail(st), types)

\* The same over all the streams a run was answered with
RECURSIVE RunText(_, _)
RunText(sts, types) ==
    IF sts = <<>> THEN <<>>
    ELSE StreamText(Head(sts), types) \o RunText(Tail(sts), types)

ResultRuns == SelectSeq(runs, LAMBDA r : r.by = "result")

\* C12: when next(A, t) and then next(B, t) were called on a chain (the
\* other chain left empty) and result() has returned, agent B was run by
\* result() with a task that contains "Previous Result:" and a newline
\* followed by A's answer.
C12_SecondAgentTask ==
    \A c \in Chains :
        (/\ frames = <<>>
         /\ chain_ret # None
         /\ chain_call = [op |-> "result", chain |-> c, agent |-> "none"]
         /\ \A d \in Chains \ {c} : agents[d] = <<>>
         /\ agents[c][1].agent = "A"
         /\ ask_previous["B"] = "A")
        => \E k \in 2..Len(runs) :
              /\ runs[k].agent = "B" /\ runs[k].by = "result"
              /\ Contains(runs[k].prompt.s,
                          <<"Previous Result:", "\n">>
                          \o RunText(runs[1].answers, {"reasoning", "response"}))

C14_EmptyChainRaises ==
    [][(frames = <<>> /\ chain_call'.op = "result"
        /\ agents[chain_call'.chain] = <<>>)
       => /\ chain_exc' = "Exception"
          /\ frames' = <<>>
          /\ runs' = runs
          /\ history' = history
          /\ chain_ret' = None]_vars

\* result() was awaited on the empty chain 2 while chain 1 holds an agent.
C14_Witness ==
    /\ chain_call = [op |-> "result", chain |-> 2, agent |-> "none"]
    /\ agents[1] # <<>>
    /\ chain_exc = "Exception"
    /\ runs = <<>>

\* C15: every run that ask_previous_agent begins starts on a conversation
\* that holds the system message only, so that the request the previous
\* agent's transport gets holds the system message and the question.
C15_AskStartsFresh ==
    \A k \in 1..Len(runs) : runs[k].by = "ask" => runs[k].from = 1

\* C16 as stated: at most one run_stream is begun and not yet ended.
C16_OneLoopActive == ActiveLoops(frames) <= 1

\* C16, amended: the runs under result() are nested, never interleaved.  A
\* step is taken by the innermost run only, and changes no frame but that
\* run's and its consumer's: while ask_previous_agent runs the previous
\* agent's loop, the asking run is suspended at its tool call, and it goes on
\* when that loop has ended.
C16_LoopsNested ==
    /\ [](frames # <<>> =>
             /\ frames[1].kind = "result"
             /\ Top.kind = "run"
             /\ \A i \in 2..(Len(frames) - 1) :
                   /\ frames[i].kind = IF i % 2 = 0 THEN "run" ELSE "ask"
                   /\ frames[i].kind = "run" => frames[i].pc = "tools")
    /\ [][(Len(frames) > 2 /\ Len(frames') >= Len(frames)) =>
             SubSeq(frames', 1, Len(frames) - 2)
                = SubSeq(frames, 1, Len(frames) - 2)]_vars
    /\ [][(Len(frames) > 2 /\ Len(frames') < Len(frames)) =>
             /\ Top.pc = "done"
             /\ Len(frames') = Len(frames) - 2
             /\ SubSeq(frames', 1, Len(frames') - 1)
                   = SubSeq(frames, 1, Len(frames') - 1)
             /\ frames'[Len(frames')].tool_i = frames[Len(frames')].tool_i + 1
         ]_vars

\* Agent B's run is suspended at ask_previous_agent while agent A's run
\* streams.
C16_Witness ==
    /\ Len(frames) = 4
    /\ frames[2].agent = "B" /\ frames[2].pc = "tools"
    /\ frames[4].agent = "A" /\ frames[4].pc = "stream"

\* Agent B asked agent A twice in one run.
AskedTwice ==
    /\ Len(runs) = 3
    /\ runs[1].agent = "B"
    /\ runs[2].agent = "A" /\ runs[2].by = "ask" /\ runs[2].from = 1
    /\ runs[3].agent = "A" /\ runs[3].by = "ask" /\ runs[3].from = 3

\* The entries of the advertised schema list that carry the name n.
SchemaEntries(n) ==
    {i \in 1..Len(tool_schemas) : tool_schemas[i].function.name = n}

\* C17: a registration under a name that is already registered leaves the
\* registry with the later callable under that name and with exactly one
\* schema of that name in the advertised list.
C17_LastRegistrationWins ==
    [][\A f \in Funcs :
          (/\ call'.op = "tool"
           /\ FuncName(f) \in DOMAIN tool_mapping
           /\ tool_mapping[FuncName(f)].func # f
           /\ tool_mapping'[FuncName(f)].func = f)
          => /\ DOMAIN tool_mapping' = DOMAIN tool_mapping
             /\ Cardinality(SchemaEntries(FuncName(f))') = 1]_vars

\* The later callable of the name add replaced the earlier one, and a call
\* of add entered it.
LaterAddInvoked ==
    /\ <<"add">> \in DOMAIN tool_mapping
    /\ tool_mapping[<<"add">>].func = "add2"
    /\ invoked = <<"add2">>
    /\ tool_schemas = <<>>

\* typing.Optional[int], int | None in either order, or their text
IsOptionalInt(annotation) ==
    \/ annotation.k = "text"
    \/ /\ annotation.k \in {"Union", "UnionType"}
       /\ Len(annotation.args) = 2
       /\ {annotation.args[1], annotation.args[2]}
             = {Ann("int"), Ann("NoneType")}

InRequired(schema, n) ==
    \E i \in 1..Len(schema.function.parameters.required) :
        schema.function.parameters.required[i] = n

\* C18: in the schema inferred for a callable, a parameter is in required
\* exactly when it has no default, and a parameter annotated optional integer
\* that has a default is described as {type: integer}.
C18_OptionalIntSchema ==
    tool_schema # None =>
        \A i \in 1..Len(signature) :
            LET p == signature[i]
            IN  p.name # "ctx" =>
                  /\ InRequired(tool_schema, p.name) <=> ~p.has_default
                  /\ (IsOptionalInt(p.annotation) /\ p.has_default)
                     => tool_schema.function.parameters.properties[p.name]
                           = [type |-> "integer"]

\* C19: a registration raises nothing and leaves the callable stored under
\* its name with hasContext telling whether ctx is among its parameters and
\* a schema of that name in the schema list; and every completion request
\* advertises a schema for every registered name.
C19_RegistrationSucceeds ==
    /\ [][\A f \in Funcs :
             Tool(f) =>
                /\ exc' = ""
                /\ tool_mapping'[FuncName(f)]
                      = [func |-> f, hasContext |-> "ctx" \in FuncParams(f)]
                /\ SchemaEntries(FuncName(f))' # {}]_vars
    /\ [](\A k \in 1..Len(requests) :
             \A n \in DOMAIN tool_mapping :
                 \E i \in 1..Len(requests[k].tools) :
                     requests[k].tools[i].function.name = n)

\* The tool calls the assistant message m asks for
CallsOf(m) == IF "tool_calls" \in DOMAIN m THEN m.tool_calls ELSE <<>>

\* The messages msgs end with an assistant message that asks for tool calls,
\* followed by one tool message for each of its calls, in the calls' order.
EndsWithToolTurns(msgs) ==
    \E j \in 1..Len(msgs) :
        LET calls == CallsOf(msgs[j])
        IN  /\ msgs[j].role = ASSISTANT
            /\ calls # <<>>
            /\ Len(msgs) = j + Len(calls)
            /\ \A i \in 1..Len(calls) :
                  /\ msgs[j + i].role = TOOL
                  /\ msgs[j + i].tool_call_id = calls[i].id
                  /\ msgs[j + i].name = calls[i].function.name

\* C20: the tool calls of a step are handled one at a time in the order of
\* the aggregated list.  Handling call k emits its tool_call event, enters at
\* most one callable, emits its tool_call_result event and appends its tool
\* message carrying the text of that result, while calls 1..k-1 have their
\* events and messages in place and no completion is requested; call k+1
\* comes next, or the next step after the last call; and every completion
\* request after a step with tool calls is passed all of that step's tool
\* messages, in order.
C20_ToolCallsInOrder ==
    /\ [][pc = "tools" =>
            LET tc   == tool_calls_aggregator[tool_i]
                meta == Meta(tc.function.name, tc.function.arguments, tc.id)
                n    == Len(events)
            IN  /\ Len(events') = n + 2
                /\ SubSeq(events', 1, n) = events
                /\ events'[n + 1] = AgentChunkResponse(None, meta, "tool_call")
                /\ events'[n + 2].type = "tool_call_result"
                /\ events'[n + 2].metadata = meta
                /\ conversation_history' =
                      Append(conversation_history,
                             ToolMessage(tc.id, tc.function.name,
                                         events'[n + 2].content))
                /\ IsPrefix(invoked, invoked')
                /\ Len(invoked') <= Len(invoked) + 1
                /\ requests' = requests
                /\ tool_i' = tool_i + 1
                /\ pc' = IF tool_i < Len(tool_calls_aggregator) THEN "tools"
                         ELSE "loop"]_vars
    /\ [](/\ ToolTurnsInOrder
          /\ pc = "tools" =>
                /\ Len(events) >= 2 * (tool_i - 1)
                /\ \A k \in 1..(tool_i - 1) :
                      LET e == Len(events) - 2 * (tool_i - k)
                      IN  /\ events[e + 1].type = "tool_call"
                          /\ events[e + 2].type = "tool_call_result"
                          /\ events[e + 1].metadata["tool_id"]
                                = tool_calls_aggregator[k].id
                          /\ events[e + 2].metadata["tool_id"]
                                = tool_calls_aggregator[k].id)
    /\ [](\A k \in 2..Len(requests) : EndsWithToolTurns(requests[k].messages))

\* A step asked for sub and then boom; both were handled in that order and
\* the second completion request carries both tool messages.
C20_Witness ==
    /\ Len(requests) = 2
    /\ answers[1] = <<ContentChunk, ToolChunk(FragSub), ToolChunk(FragBoom)>>
    /\ Len(events) = 5
    /\ <<events[2].type, events[3].type, events[4].type, events[5].type>>
          = <<"tool_call", "tool_call_result", "tool_call", "tool_call_result">>
    /\ events[2].metadata["tool_id"] = PyStr(<<"s">>)
    /\ events[4].metadata["tool_id"] = PyStr(<<"b">>)
    /\ LET m == requests[2].messages
       IN  /\ m[Len(m) - 1].tool_call_id = PyStr(<<"s">>)
           /\ m[Len(m)].tool_call_id = PyStr(<<"b">>)

\* C21: the tool_call_result event emitted for a tool call carries the same
\* content as the tool message appended for that call: the text of the
\* tool's output.
C21_ResultEventIsText ==
    [][pc = "tools" =>
          /\ events'[Len(events')].type = "tool_call_result"
          /\ events'[Len(events')].content.t = "str"
          /\ events'[Len(events')].content
                = conversation_history'[Len(conversation_history')].content]_vars

\* The text of the response events at the end of the event log ev, back to
\* the latest tool_call_result event: the response events of the step in
\* progress.
RECURSIVE StepResponseText(_)
StepResponseText(ev) ==
    IF ev = <<>> \/ ev[Len(ev)].type = "tool_call_result" THEN <<>>
    ELSE StepResponseText(SubSeq(ev, 1, Len(ev) - 1))
         \o (IF ev[Len(ev)].type = "response" THEN ev[Len(ev)].content.s
             ELSE <<>>)

\* The tool-call fragments the stream st delivers, in order
RECURSIVE StreamFragments(_)
StreamFragments(st) ==
    IF st = <<>> THEN <<>>
    ELSE (IF Head(st).choices = 0 THEN <<>> ELSE Head(st).delta.tool_calls)
         \o StreamFragments(Tail(st))

AssistantTurns ==
    Cardinality({i \in (run_from + 1)..Len(conversation_history) :
                    conversation_history[i].role = ASSISTANT})

\* C22: when the stream of a step has ended, exactly one message is appended,
\* an assistant message: without tool calls its content is the text of the
\* step's response events in order; with tool calls its content is None and
\* its tool_calls are all the fragments the stream delivered, in order.  No
\* other assistant message is appended: a run has one per finished step.
C22_OneAssistantTurnPerStep ==
    /\ [][(pc = "stream" /\ stream = <<>>) =>
            LET calls == StreamFragments(answers[Len(answers)])
                n     == Len(conversation_history)
                m     == conversation_history'[n + 1]
            IN  /\ Len(conversation_history') = n + 1
                /\ SubSeq(conversation_history', 1, n) = conversation_history
                /\ m.role = ASSISTANT
                /\ IF calls = <<>>
                   THEN m = [role |-> ASSISTANT,
                             content |-> PyStr(StepResponseText(events))]
                   ELSE /\ DOMAIN m = {"role", "content", "tool_calls"}
                        /\ m.content = None
                        /\ Len(m.tool_calls) = Len(calls)
                        /\ \A i \in 1..Len(calls) :
                              /\ m.tool_calls[i].index = calls[i].index
                              /\ m.tool_calls[i].id = calls[i].id
                              /\ m.tool_calls[i].function = calls[i].function
                              /\ m.tool_calls[i].type = calls[i].type]_vars
    /\ [](pc \in {"stream", "tools", "loop"} =>
             AssistantTurns = IF pc = "stream" THEN step - 1 ELSE step)

\* A step whose stream held a chunk without choices or a chunk with an empty
\* content was appended as the text of its two response events; and a step
\* with text and two tool calls was appended with content None.
C22_Witness ==
    /\ pc = "idle"
    /\ Len(answers) = 2
    /\ answers[1] = <<ContentChunk, ToolChunk(FragSub), ToolChunk(FragBoom)>>
    /\ answers[2] = <<ReasoningChunk, ContentChunk, ContentChunk>>
    /\ LET n == Len(conversation_history)
       IN  /\ conversation_history[n].content = PyStr(<<"Hi", "Hi">>)
           /\ conversation_history[n - 3].content = None
           /\ Len(conversation_history[n - 3].tool_calls) = 2

\* C23: at the entry of a run the SYSTEM_PROMPT hook is called with the
\* caller's dependency; message 0 then holds the base prompt, a newline and
\* the hook's output when that output is not empty, and the base prompt
\* otherwise; the user's prompt is appended as the last message, and it is
\* the last message of the first completion request.
C23_SystemPromptComposed ==
    /\ [][(pc = "idle" /\ pc' = "loop") =>
            LET output == CallHook(SYSTEM_PROMPT, [k \in {"ctx"} |-> dependency'])
                n      == Len(conversation_history)
            IN  /\ conversation_history'[1]
                      = [role |-> SYSTEM,
                         content |-> PyStr(IF Truthy(output)
                                           THEN llm_system_prompt \o <<"\n">>
                                                \o output.s
                                           ELSE llm_system_prompt)]
                /\ Len(conversation_history') = n + 1
                /\ SubSeq(conversation_history', 2, n)
                      = SubSeq(conversation_history, 2, n)
                /\ conversation_history'[n + 1].role = USER
                /\ conversation_history'[n + 1].content \in
                      {PyStr(p) : p \in Prompts}]_vars
    /\ [](requests # <<>> =>
             LET msgs == requests[1].messages
             IN  /\ Len(msgs) = run_from + 1
                 /\ msgs[Len(msgs)].role = USER)

\* The handlers registered for the event t, in the order of registration
RegisteredFor(t) == SelectSeq(hook_log, LAMBDA e : e.event = t)

\* C24: the registry holds, for every event, the handler registered last for
\* it and nothing for an event without registration; a registration changes
\* the entry of its event only; a __call_hook of an event without handler
\* returns None, and otherwise what the handler registered last returns when
\* given those of the keyword arguments that it declares.
C24_OneHandlerPerEvent ==
    /\ [](\A t \in HookEvents :
             LET regs == RegisteredFor(t)
             IN  IF regs = <<>> THEN t \notin DOMAIN hooks
                 ELSE t \in DOMAIN hooks /\ hooks[t] = regs[Len(regs)].func)
    /\ [][hook_log' # hook_log =>
            LET e == hook_log'[Len(hook_log')]
            IN  /\ hooks'[e.event] = e.func
                /\ DOMAIN hooks' = DOMAIN hooks \cup {e.event}
                /\ \A t \in DOMAIN hooks \ {e.event} : hooks'[t] = hooks[t]
                /\ <<hook_call, hook_ret>>' = <<hook_call, hook_ret>>]_vars
    /\ [][hook_log' = hook_log =>
            LET t    == hook_call'.event
                ps   == hook_call'.params
                regs == RegisteredFor(t)
                h    == regs[Len(regs)].func
            IN  /\ hooks' = hooks
                /\ hook_ret' =
                      IF regs = <<>> THEN None
                      ELSE HookBody(h, [k \in DOMAIN ps \cap HookParams(h)
                                           |-> ps[k]])]_vars

\* sys_hook and then plain_hook were registered for SYSTEM_PROMPT, nothing
\* for ON_AGENT_STEP; a call of SYSTEM_PROMPT with ctx and step returned what
\* plain_hook returns.
C24_Witness ==
    /\ Len(hook_log) = 2
    /\ hook_log[1] = [event |-> SYSTEM_PROMPT, func |-> "sys_hook",
                      via |-> "system_prompt"]
    /\ hook_log[2] = [event |-> SYSTEM_PROMPT, func |-> "plain_hook",
                      via |-> "hook"]
    /\ hook_call.event = SYSTEM_PROMPT
    /\ DOMAIN hook_call.params = {"ctx", "step"}
    /\ Truthy(hook_call.params["ctx"])
    /\ hook_ret = PyStr(<<"P">>)

\* The indexes of the messages appended by the latest run
RunIndexes == (run_from + 1)..Len(conversation_history)

\* The assistant message at index j is directly followed by one tool message
\* for each of its calls, in the calls' order, and by no further tool message.
TurnAnswered(j) ==
    LET conv  == conversation_history
        calls == CallsOf(conv[j])
        n     == Len(calls)
    IN  /\ j + n <= Len(conv)
        /\ \A i \in 1..n :
              /\ conv[j + i].role = TOOL
              /\ conv[j + i].tool_call_id = calls[i].id
              /\ conv[j + i].name = calls[i].function.name
        /\ j + n < Len(conv) => conv[j + n + 1].role = ASSISTANT

\* The ids of the tool calls the latest run recorded, call by call
RunCallIds ==
    {<<j, i>> \in RunIndexes \X (1..8) :
        /\ conversation_history[j].role = ASSISTANT
        /\ i <= Len(CallsOf(conversation_history[j]))}

C26_PromptRecomposedEachRun ==
    /\ [][llm_system_prompt' = llm_system_prompt]_vars
    /\ [][(pc = "idle" /\ pc' = "loop") =>
            LET output == CallHook(SYSTEM_PROMPT, [k \in {"ctx"} |-> dependency'])
                joined == IF Truthy(output)
                          THEN llm_system_prompt \o <<"\n">> \o output.s
                          ELSE llm_system_prompt
            IN  conversation_history'[1].content
                   \in {PyStr(joined), PyStr(Strip(joined))}]_vars

\* The stored base prompt is never changed, and with a base prompt that is
\* not blank message 0 is recomposed at the entry of every run.
PromptRecomposedWhenNotBlank ==
    /\ [][llm_system_prompt' = llm_system_prompt]_vars
    /\ [][(pc = "idle" /\ pc' = "loop" /\ Strip(llm_system_prompt) # <<>>) =>
            conversation_history'[1].content
               = PyStr(Strip(FormatSystemPrompt(dependency',
                                                llm_system_prompt)))]_vars

====
